---------------------------- MODULE Spec2Model ----------------------------
(***************************************************************************)
(* A model of src/server.js: the CWA weather proxy.                        *)
(*                                                                         *)
(* One Express route per city of TAIWAN_CITIES is served by                *)
(* handleWeatherRequest(city), which awaits getWeatherByLocation(city):    *)
(* the API-key check, one axios.get to the CWA open-data API, the search   *)
(* of the city's block in the reply, and the merge of the block's parallel *)
(* weatherElement arrays into one forecast per time slot.  Thrown errors   *)
(* are mapped to HTTP responses in the handler's catch block.              *)
(*                                                                         *)
(* Conventions.                                                            *)
(*  - Text that the code builds or inspects (parameterName + "%",          *)
(*    error.message.includes(...)) is a sequence of pieces of text:        *)
(*    characters or words.  The empty string "" is <<>>.                   *)
(*  - A value that may be undefined is a sequence of length at most one:   *)
(*    <<>> is undefined, <<v>> is v.                                       *)
(*  - A JSON value is a record with a field  type  ("null", "string",      *)
(*    "object").                                                           *)
(*  - JavaScript arrays are 0-based, the sequences here 1-based: time[i]   *)
(*    of the source is time[i + 1] here.                                   *)
(*  - The source's Chinese literals cannot be written in a TLA+ string;    *)
(*    each gets an ASCII stand-in and the original is quoted beside it.    *)
(***************************************************************************)
EXTENDS Integers, Sequences, FiniteSets, TLC

VARIABLES
    apiKey,     \* CWA_API_KEY: process.env.CWA_API_KEY, read once at startup
    express,    \* the major version of the express package the build installs
    pc,         \* pc[r]: where request r's handler stands
    path,       \* path[r]: the route (slug) request r asked for
    calls,      \* calls[r]: outbound axios.get calls issued for request r
    reply,      \* reply[r]: the outcome of r's upstream call, once it has one
    pending,    \* pending[r]: the error r's handler promise rejected with
    sent        \* sent[r]: the HTTP responses written to request r, in order

vars == <<apiKey, express, pc, path, calls, reply, pending, sent>>

---------------------------------------------------------------------------
(* Bounds of the model. *)

\* in-flight requests in the concurrent specification
NumRequests == 2

\* time slots of the reference element in the generated locality blocks
MaxSlots == 2

---------------------------------------------------------------------------
(* Text. *)

Percent == <<"%">>
DegreeC == <<"°", "C">>

\* a mutant of Concat: the suffix put in front
Concat_prefix(a, b) == b \o a

\* a + b on strings
Concat(a, b) == a \o b

\* message.includes(word), on a message held as a sequence of words
Includes(message, word) == \E k \in 1..Len(message) : message[k] = word

\* !v for a string that may be undefined: undefined and "" are falsy
Falsy(opt) == opt = <<>> \/ opt[1] = <<>>

---------------------------------------------------------------------------
(* Configuration. *)

\* "新竹縣", "桃園市", "新竹市", "苗栗縣": <<place, division>>, where the
\* division "xian" stands for 縣 and "shi" for 市
TAIWAN_CITIES ==
    << <<"XinZhu", "xian">>, <<"TaoYuan", "shi">>,
       <<"XinZhu", "shi">>, <<"MiaoLi", "xian">> >>

Cities == {TAIWAN_CITIES[k] : k \in 1..Len(TAIWAN_CITIES)}

\* city.replace("縣", "county").replace("市", "city").toLowerCase()
Slug(city) ==
    << city[1],
       IF city[2] = "xian" THEN "county"
       ELSE IF city[2] = "shi" THEN "city" ELSE city[2] >>

\* the city whose handler app.get registered for a slug
RouteCity(slug) == CHOOSE c \in Cities : Slug(c) = slug

\* the values process.env.CWA_API_KEY can have: unset, empty, set
ApiKeys == {<<>>, << <<>> >>, << <<"CWA-KEY">> >>}

---------------------------------------------------------------------------
(* Errors. *)

\* new Error("伺服器設定錯誤: 請在 .env 檔案中設定 CWA_API_KEY")
ConfigError ==
    [name |-> "Error",
     message |-> <<"ServerConfigError:", "set", "CWA_API_KEY", "in", ".env">>,
     response |-> <<>>]

\* new Error(`查無資料: 無法取得 ${locationName} 天氣資料`)
NoDataError(locationName) ==
    [name |-> "Error",
     message |-> <<"NoData:", "cannot", "get", locationName[1],
                   locationName[2], "weather">>,
     response |-> <<>>]

\* the TypeError of reading a property of undefined or null
TypeError(property) ==
    [name |-> "TypeError",
     message |-> <<"Cannot", "read", "properties", "of", "undefined",
                   "(reading", property, ")">>,
     response |-> <<>>]

\* what axios.get rejects with on a non-2xx status: error.response is set
AxiosStatusError(status, data) ==
    [name |-> "AxiosError",
     message |-> <<"Request", "failed", "with", "status", "code",
                   ToString(status)>>,
     response |-> << [status |-> status, data |-> data] >>]

\* what axios.get rejects with when no HTTP response arrived
AxiosNetworkError ==
    [name |-> "AxiosError",
     message |-> <<"getaddrinfo", "ENOTFOUND", "opendata.cwa.gov.tw">>,
     response |-> <<>>]

Thrown(error) == [thrown |-> TRUE, error |-> error]
Returned(value) == [thrown |-> FALSE, value |-> value]

---------------------------------------------------------------------------
(* JSON bodies and JavaScript property reads. *)

JNull == [type |-> "null"]
JString(text) == [type |-> "string", value |-> text]
JObject(fields) == [type |-> "object", fields |-> fields]

\* object.name on a plain object: its value, or undefined
Prop(object, name) ==
    IF name \in DOMAIN object THEN <<object[name]>> ELSE <<>>

\* data.name on a parsed body: null throws, a string has no such property
DataProp(data, name) ==
    IF data.type = "null" THEN Thrown(TypeError(name))
    ELSE IF data.type = "string" THEN Returned(<<>>)
    ELSE Returned(Prop(data.fields, name))

---------------------------------------------------------------------------
(* The upstream call. *)

\* reply[r] before the upstream call has an outcome
NoReply == [kind |-> "pending"]

\* an HTTP response arrived
HttpReply(status, data) == [kind |-> "response", status |-> status, data |-> data]

\* no HTTP response arrived: DNS failure, refused connection, timeout
NoHttpReply == [kind |-> "none"]

\* axios' default validateStatus
Is2xx(status) == status >= 200 /\ status < 300

\* await axios.get(...): resolves with the response on 2xx, rejects otherwise
AxiosGet(outcome) ==
    IF outcome.kind = "none" THEN Thrown(AxiosNetworkError)
    ELSE IF Is2xx(outcome.status)
         THEN Returned([status |-> outcome.status, data |-> outcome.data])
         ELSE Thrown(AxiosStatusError(outcome.status, outcome.data))

---------------------------------------------------------------------------
(* getWeatherByLocation, after the reply: the search and the merge. *)

Recognized == {"Wx", "PoP", "MinT", "MaxT", "CI"}

\* the forecast literal of the loop body, before the forEach
NewForecast(slot) ==
    [startTime |-> slot.startTime, endTime |-> slot.endTime,
     weather |-> <<>>, rain |-> <<>>, minTemp |-> <<>>, maxTemp |-> <<>>,
     comfort |-> <<>>, windSpeed |-> <<>>]

\* the switch on element.elementName
SetField(forecast, elementName, parameterName) ==
    CASE elementName = "Wx" ->
           [forecast EXCEPT !.weather = parameterName]
      [] elementName = "PoP" ->
           [forecast EXCEPT !.rain = Concat(parameterName, Percent)]
      [] elementName = "MinT" ->
           [forecast EXCEPT !.minTemp = Concat(parameterName, DegreeC)]
      [] elementName = "MaxT" ->
           [forecast EXCEPT !.maxTemp = Concat(parameterName, DegreeC)]
      [] elementName = "CI" ->
           [forecast EXCEPT !.comfort = parameterName]
      [] OTHER -> forecast

\* a mutant of ApplyElement: an element without slot i is skipped, and the
\* record is left partly filled
ApplyElement_skipAbsent(acc, element, i) ==
    IF acc.thrown THEN acc
    ELSE IF i > Len(element.time) THEN acc
    ELSE LET value == element.time[i].parameter
         IN  IF element.elementName \notin Recognized THEN acc
             ELSE IF value = <<>>
                  THEN Thrown(TypeError("parameterName"))
             ELSE Returned(SetField(acc.value, element.elementName,
                                    value[1].parameterName))

\* one call of the forEach callback for slot i; acc is the forecast so far,
\* or the error an earlier callback threw
ApplyElement(acc, element, i) ==
    IF acc.thrown THEN acc
    ELSE IF i > Len(element.time)
         THEN Thrown(TypeError("parameter"))      \* element.time[i] is undefined
    ELSE LET value == element.time[i].parameter
         IN  IF element.elementName \notin Recognized THEN acc
             ELSE IF value = <<>>
                  THEN Thrown(TypeError("parameterName"))  \* value is undefined
             ELSE Returned(SetField(acc.value, element.elementName,
                                    value[1].parameterName))

RECURSIVE ForEachElement(_, _, _, _)
\* weatherElements.forEach(...) from element k on
ForEachElement(weatherElements, k, i, acc) ==
    IF k > Len(weatherElements) THEN acc
    ELSE ForEachElement(weatherElements, k + 1, i,
                        ApplyElement(acc, weatherElements[k], i))

\* a mutant of Push: unshift, the records come out in reverse slot order
Push_front(forecasts, forecast) == <<forecast>> \o forecasts

\* weatherData.forecasts.push(forecast)
Push(forecasts, forecast) == Append(forecasts, forecast)

RECURSIVE BuildForecasts(_, _, _, _)
\* for (let i = 0; i < timeCount; i++) { ... } from slot i on
BuildForecasts(weatherElements, i, timeCount, forecasts) ==
    IF i > timeCount THEN Returned(forecasts)
    ELSE LET forecast ==
                 ForEachElement(weatherElements, 1, i,
                     Returned(NewForecast(weatherElements[1].time[i])))
         IN  IF forecast.thrown THEN forecast
             ELSE BuildForecasts(weatherElements, i + 1, timeCount,
                                 Push(forecasts, forecast.value))

\* the slot count the loop runs to: the first element's
TimeCount(weatherElements) == Len(weatherElements[1].time)

\* the forecasts of a locality block's weatherElement array
Forecasts(weatherElements) ==
    IF Len(weatherElements) = 0
    THEN Thrown(TypeError("time"))               \* weatherElements[0] is undefined
    ELSE BuildForecasts(weatherElements, 1, TimeCount(weatherElements), <<>>)

\* a mutant of Find: location[0], whatever its name
Find_first(location, locationName) ==
    IF Len(location) = 0 THEN <<>> ELSE <<location[1]>>

\* location.find((loc) => loc.locationName === locationName)
Find(location, locationName) ==
    LET hits == {k \in 1..Len(location) :
                    location[k].locationName = locationName}
    IN  IF hits = {} THEN <<>>
        ELSE <<location[CHOOSE k \in hits : \A j \in hits : k <= j]>>

\* lines 49-110 on the resolved response's data
Normalize(locationName, data) ==
    LET records == DataProp(data, "records")
    IN  IF records.thrown THEN records
        ELSE IF records.value = <<>> THEN Thrown(TypeError("location"))
        ELSE LET location == Prop(records.value[1], "location")
                 locationData ==
                     IF location = <<>> THEN <<>>
                     ELSE Find(location[1], locationName)
             IN  IF location = <<>> THEN Thrown(TypeError("find"))
                 ELSE IF locationData = <<>>
                      THEN Thrown(NoDataError(locationName))
                 ELSE LET forecasts ==
                              Forecasts(locationData[1].weatherElement)
                      IN  IF forecasts.thrown THEN forecasts
                          ELSE Returned(
                            [city |-> locationName,
                             datasetDescription |->
                                 Prop(records.value[1], "datasetDescription"),
                             dataUpdateTime |->
                                 Prop(records.value[1], "issueTime"),
                             forecasts |-> forecasts.value])

---------------------------------------------------------------------------
(* handleWeatherRequest: the responses and the catch block. *)

Response(status, body) == [status |-> status, body |-> body]

\* res.json({ success: true, data: data })
SuccessResponse(data) == Response(200, [success |-> TRUE, data |-> data])

\* "無法取得天氣資料"
DefaultMessage == <<"cannot", "get", "weather", "data">>

\* `無法取得 ${locationName} 天氣資料，請稍後再試`
RetryLaterMessage(locationName) ==
    <<"cannot", "get", locationName[1], locationName[2], "weather", "data,",
      "try", "again", "later">>

\* a mutant of KeyMissing: CWA_API_KEY === undefined, an empty key passes
KeyMissing_undefinedOnly(key) == key = <<>>

\* if (!CWA_API_KEY)
KeyMissing(key) == Falsy(key)

\* a mutant of Catch: every axios error counts as an upstream error, with
\* status 502 when there is no response
Catch_axiosIsUpstream(locationName, error) ==
    IF Includes(error.message, "CWA_API_KEY")
    THEN Returned(Response(500, [error |-> "ServerConfigError",
                                 message |-> error.message]))
    ELSE IF error.response # <<>>
    THEN LET data == error.response[1].data
             message == DataProp(data, "message")
         IN  IF message.thrown THEN message
             ELSE Returned(Response(error.response[1].status,
                    [error |-> "CwaApiError",
                     message |-> IF Falsy(message.value) THEN DefaultMessage
                                 ELSE message.value[1],
                     details |-> data]))
    ELSE IF error.name = "AxiosError"
    THEN Returned(Response(502, [error |-> "CwaApiError",
                                 message |-> DefaultMessage,
                                 details |-> JNull]))
    ELSE Returned(Response(500, [error |-> "ServerError",
                                 message |-> RetryLaterMessage(locationName)]))

\* the catch block: the response it writes, or the error it throws itself.
\* The error labels "伺服器設定錯誤", "CWA API 錯誤" and "伺服器錯誤" are
\* "ServerConfigError", "CwaApiError" and "ServerError".
Catch(locationName, error) ==
    IF Includes(error.message, "CWA_API_KEY")
    THEN Returned(Response(500, [error |-> "ServerConfigError",
                                 message |-> error.message]))
    ELSE IF error.response # <<>>
    THEN LET data == error.response[1].data
             message == DataProp(data, "message")  \* error.response.data.message
         IN  IF message.thrown THEN message
             ELSE Returned(Response(error.response[1].status,
                    [error |-> "CwaApiError",
                     message |-> IF Falsy(message.value) THEN DefaultMessage
                                 ELSE message.value[1],
                     details |-> data]))
    ELSE Returned(Response(500, [error |-> "ServerError",
                                 message |-> RetryLaterMessage(locationName)]))

\* the handler from the point where the awaited axios.get settles with
\* outcome: the response it writes, or the error its promise rejects with
AfterAwait(locationName, outcome) ==
    LET response == AxiosGet(outcome)
        data == IF response.thrown THEN response
                ELSE Normalize(locationName, response.value.data)
    IN  IF data.thrown THEN Catch(locationName, data.error)
        ELSE Returned(SuccessResponse(data.value))

\* the error handling middleware: app.use((err, req, res, next) => ...)
ErrorMiddleware(err) ==
    Response(500, [error |-> "ServerError", message |-> err.message])

---------------------------------------------------------------------------
(* What the upstream can reply. *)

\* the elements of dataset F-C0032-001 in the order the API lists them,
\* between two element kinds the switch does not know
BaseOrder == <<"WS", "Wx", "PoP", "MinT", "CI", "MaxT", "WD">>

\* the names at the positions S of BaseOrder, in order
Names(S) ==
    LET idx == SelectSeq([k \in 1..Len(BaseOrder) |-> k], LAMBDA k : k \in S)
    IN  [j \in 1..Len(idx) |-> BaseOrder[idx[j]]]

\* element k of a block, with len time slots; every slot's text names its
\* element and its index, so that no two slots of a block are alike; the
\* slot noParam, if any, lacks its parameter
Element(k, name, len, mark, noParam) ==
    [elementName |-> name,
     time |-> [i \in 1..len |->
        [startTime |-> <<"start", ToString(k), ToString(i)>>,
         endTime |-> <<"end", ToString(k), ToString(i)>>,
         parameter |-> IF i = noParam THEN <<>>
                       ELSE << [parameterName |->
                                   <<name, ToString(i), mark>>] >>]]]

\* a locality block whose elements have N slots each, but for element d
\* (if d > 0), which has dev slots, or (dev = -1) lacks slot 1's parameter
Block(city, names, N, d, dev, mark) ==
    [locationName |-> city,
     weatherElement |-> [k \in 1..Len(names) |->
        Element(k, names[k],
                IF k = d /\ dev >= 0 THEN dev ELSE N, mark,
                IF k = d /\ dev = -1 THEN 1 ELSE 0)]]

\* the ways element d of a block deviates (none when d = 0)
Deviations(N, d) ==
    IF d = 0 THEN {0}
    ELSE ((0..MaxSlots) \ {N}) \cup (IF N >= 1 THEN {-1} ELSE {})

\* {records: {datasetDescription, issueTime, location}}
Envelope(mark, location) ==
    JObject([records |->
        [datasetDescription |-> <<"36h", "forecast", mark>>,
         issueTime |-> <<"2024-01-01", mark>>,
         location |-> location]])

\* another configured city
OtherCity(city) ==
    LET k == CHOOSE j \in 1..Len(TAIWAN_CITIES) : TAIWAN_CITIES[j] = city
    IN  TAIWAN_CITIES[(k % Len(TAIWAN_CITIES)) + 1]

FiveElements == Names({2, 3, 4, 5, 6})

OtherBlock(city) == Block(OtherCity(city), FiveElements, 1, 0, 0, "other")

\* 2xx bodies that are no envelope: a non-JSON body (axios leaves the text),
\* JSON null, an object without records, records without location
Malformed ==
    { JString(<<"<html>">>), JString(<<>>), JNull,
      JObject([message |-> <<"ok">>]),
      JObject([records |-> [datasetDescription |-> <<"36h">>]]) }

\* bodies of non-2xx replies: a message, an empty message, no message,
\* a non-JSON body, an empty body, JSON null
ErrorBodies ==
    { JObject([message |-> <<"service", "unavailable">>]),
      JObject([message |-> <<>>]),
      JObject([code |-> <<"E503">>]),
      JString(<<"<html>">>), JString(<<>>), JNull }

ErrorStatuses == {401, 503}

\* the outcomes of one upstream call that carry no block of the city
Outcomes(city) ==
    {NoHttpReply}
    \cup {HttpReply(s, b) : s \in ErrorStatuses, b \in ErrorBodies}
    \cup {HttpReply(200, d) : d \in Malformed}
    \cup {HttpReply(200, Envelope("a", l)) : l \in {<<>>, <<OtherBlock(city)>>}}

\* a 2xx reply with a block of the city, after another city's block if lead
BlockReply(city, block, lead) ==
    HttpReply(200, Envelope("a",
        IF lead THEN <<OtherBlock(city), block>> ELSE <<block>>))

\* a few of them, told apart by their mark, for the concurrent one
FewOutcomes(city) ==
    {NoHttpReply,
     HttpReply(503, JObject([message |-> <<"service", "unavailable">>])),
     HttpReply(503, JNull),
     HttpReply(200, Envelope("a", <<OtherBlock(city)>>))}
    \cup {HttpReply(200, Envelope(m, <<Block(city, FiveElements, 1, 0, 0, m)>>))
            : m \in {"a", "b"}}

---------------------------------------------------------------------------
(* The requests. *)

Requests == 1..NumRequests

Slugs == {Slug(c) : c \in Cities}

\* the locationName the route's handler was created with
LocationName(r) == RouteCity(path[r][1])

\* a mutant of AwaitedResponse: the response is kept in a variable of the
\* module, where another request's reply may have replaced it
AwaitedResponse_shared(r) ==
    LET others == {q \in DOMAIN reply : q # r /\ reply[q] # NoReply}
    IN  IF others = {} THEN reply[r] ELSE reply[CHOOSE q \in others : TRUE]

\* const response = await axios.get(...): the outcome of r's own call
AwaitedResponse(r) == reply[r]

\* the handler ends: it wrote a response, or its promise rejected
Settle(r, result) ==
    IF result.thrown
    THEN /\ pc' = [pc EXCEPT ![r] = "rejected"]
         /\ pending' = [pending EXCEPT ![r] = <<result.error>>]
         /\ sent' = sent
    ELSE /\ pc' = [pc EXCEPT ![r] = "done"]
         /\ pending' = pending
         /\ sent' = [sent EXCEPT ![r] = Append(@, result.value)]

\* GET /api/weather/{slug} arrives: the handler runs to the key check and,
\* with a key, to the await of axios.get
Arrive(r, slug) ==
    /\ pc[r] = "idle"
    /\ path' = [path EXCEPT ![r] = <<slug>>]
    /\ IF KeyMissing(apiKey)
       THEN /\ Settle(r, Catch(RouteCity(slug), ConfigError))
            /\ calls' = calls
       ELSE /\ calls' = [calls EXCEPT ![r] = @ + 1]
            /\ pc' = [pc EXCEPT ![r] = "awaiting"]
            /\ UNCHANGED <<pending, sent>>
    /\ UNCHANGED <<apiKey, express, reply>>

\* the upstream call of r gets its outcome
UpstreamReplies(r, outcome) ==
    /\ pc[r] = "awaiting"
    /\ reply[r] = NoReply
    /\ reply' = [reply EXCEPT ![r] = outcome]
    /\ UNCHANGED <<apiKey, express, pc, path, calls, pending, sent>>

\* a mutant of Resume: a failed call is issued again
Resume_retry(r) ==
    /\ pc[r] = "awaiting"
    /\ reply[r] # NoReply
    /\ IF AxiosGet(AwaitedResponse(r)).thrown
       THEN /\ calls' = [calls EXCEPT ![r] = @ + 1]
            /\ reply' = [reply EXCEPT ![r] = NoReply]
            /\ UNCHANGED <<pc, pending, sent>>
       ELSE /\ Settle(r, AfterAwait(LocationName(r), AwaitedResponse(r)))
            /\ UNCHANGED <<calls, reply>>
    /\ UNCHANGED <<apiKey, express, path>>

\* the awaiting handler resumes and runs to its end
Resume(r) ==
    /\ pc[r] = "awaiting"
    /\ reply[r] # NoReply
    /\ Settle(r, AfterAwait(LocationName(r), AwaitedResponse(r)))
    /\ UNCHANGED <<apiKey, express, path, calls, reply>>

\* express 5 passes a rejected handler promise to next(err): the error
\* handling middleware answers
RejectionForwarded(r) ==
    /\ pc[r] = "rejected"
    /\ express = 5
    /\ pc' = [pc EXCEPT ![r] = "done"]
    /\ sent' = [sent EXCEPT ![r] = Append(@, ErrorMiddleware(pending[r][1]))]
    /\ UNCHANGED <<apiKey, express, path, calls, reply, pending>>

\* express 4 does not look at the promise a handler returns: the rejection
\* is nobody's, and the request is never answered
RejectionUnhandled(r) ==
    /\ pc[r] = "rejected"
    /\ express = 4
    /\ pc' = [pc EXCEPT ![r] = "unanswered"]
    /\ UNCHANGED <<apiKey, express, path, calls, reply, pending, sent>>

InitRequests(rs) ==
    /\ apiKey \in ApiKeys
    /\ express \in {4, 5}
    /\ pc = [r \in rs |-> "idle"]
    /\ path = [r \in rs |-> <<>>]
    /\ calls = [r \in rs |-> 0]
    /\ reply = [r \in rs |-> NoReply]
    /\ pending = [r \in rs |-> <<>>]
    /\ sent = [r \in rs |-> <<>>]

\* one request, every outcome of its upstream call
Init == InitRequests({1})

Next ==
    \/ \E slug \in Slugs : Arrive(1, slug)
    \/ /\ pc[1] = "awaiting" /\ reply[1] = NoReply
       /\ \E outcome \in Outcomes(LocationName(1)) : UpstreamReplies(1, outcome)
    \/ /\ pc[1] = "awaiting" /\ reply[1] = NoReply
       /\ \E S \in SUBSET (1..Len(BaseOrder)), N \in 0..MaxSlots, lead \in BOOLEAN :
            \E d \in 0..Cardinality(S) : \E dev \in Deviations(N, d) :
               UpstreamReplies(1,
                   BlockReply(LocationName(1),
                       Block(LocationName(1), Names(S), N, d, dev, "a"), lead))
    \/ Resume(1)
    \/ RejectionForwarded(1)
    \/ RejectionUnhandled(1)

Spec == Init /\ [][Next]_vars

\* NumRequests requests in flight at once
InitConcurrent == InitRequests(Requests)

NextConcurrent ==
    \E r \in Requests :
        \/ \E slug \in Slugs : Arrive(r, slug)
        \/ /\ pc[r] = "awaiting" /\ reply[r] = NoReply
           /\ \E outcome \in FewOutcomes(LocationName(r)) :
                  UpstreamReplies(r, outcome)
        \/ Resume(r)
        \/ RejectionForwarded(r)
        \/ RejectionUnhandled(r)

SpecConcurrent == InitConcurrent /\ [][NextConcurrent]_vars

---------------------------------------------------------------------------
(* Vocabulary of the properties. *)

\* s.endsWith(suffix)
EndsWith(s, suffix) ==
    /\ Len(s) >= Len(suffix)
    /\ SubSeq(s, Len(s) - Len(suffix) + 1, Len(s)) = suffix

Reqs == DOMAIN pc

\* r's handler has ended and nothing more will happen to r
Finished(r) == pc[r] \in {"done", "unanswered"}

Asked(r) == path[r] # <<>>
City(r) == RouteCity(path[r][1])

KeyUnset == apiKey = <<>> \/ apiKey = << <<>> >>

GotHttp(r) == reply[r].kind = "response"
Got2xx(r) == GotHttp(r) /\ Is2xx(reply[r].status)
GotNon2xx(r) == GotHttp(r) /\ ~Is2xx(reply[r].status)
GotNothing(r) == reply[r].kind = "none"

\* a 2xx reply whose body is {records: {location: [...]}}
GotEnvelope(r) ==
    /\ Got2xx(r)
    /\ reply[r].data.type = "object"
    /\ "records" \in DOMAIN reply[r].data.fields
    /\ "location" \in DOMAIN reply[r].data.fields.records

Records(r) == reply[r].data.fields.records
OwnBlocks(r) ==
    {k \in 1..Len(Records(r).location) :
        Records(r).location[k].locationName = City(r)}
GotBlock(r) == GotEnvelope(r) /\ OwnBlocks(r) # {}

\* the weatherElement array of the first block of r's city in r's own reply
Elements(r) ==
    Records(r).location[CHOOSE k \in OwnBlocks(r) :
                           \A j \in OwnBlocks(r) : k <= j].weatherElement

Named(r, name) ==
    {k \in 1..Len(Elements(r)) : Elements(r)[k].elementName = name}
TheElement(r, name) == Elements(r)[CHOOSE k \in Named(r, name) : TRUE]
Value(r, name, i) == TheElement(r, name).time[i].parameter[1].parameterName

IsSuccess(response) == "success" \in DOMAIN response.body
IsError(response, label) ==
    /\ "error" \in DOMAIN response.body
    /\ response.body.error = label

AnsweredOnce(r) == Len(sent[r]) = 1
Answer(r) == sent[r][1]

\* r was answered 500 with the generic server-error body of the catch block
GenericError(r) ==
    sent[r] = << Response(500, [error |-> "ServerError",
                                message |-> RetryLaterMessage(City(r))]) >>

---------------------------------------------------------------------------
(* C1 *)

\* C1: for every configured locality, with the API key unset (undefined or
\* empty) a request to the locality's route is answered 500 with the server
\* configuration error body, and no outbound call is made for it.
C1_KeyUnsetFailsFast ==
    \A r \in Reqs :
        (Asked(r) /\ KeyUnset) =>
            /\ AnsweredOnce(r)
            /\ Answer(r).status = 500
            /\ IsError(Answer(r), "ServerConfigError")
            /\ Includes(Answer(r).body.message, "CWA_API_KEY")
            /\ calls[r] = 0
            /\ reply[r] = NoReply

C1_Witness ==
    /\ apiKey = << <<>> >>
    /\ Asked(1) /\ City(1) = TAIWAN_CITIES[4]
    /\ AnsweredOnce(1) /\ Answer(1).status = 500

---------------------------------------------------------------------------
(* C2 *)

\* each of Wx, PoP, MinT, MaxT, CI occurs once in r's block and carries the
\* same number of slots, each slot with its parameter
C2_RecognizedAligned(r) ==
    /\ GotBlock(r)
    /\ \A name \in Recognized :
          /\ Cardinality(Named(r, name)) = 1
          /\ Len(TheElement(r, name).time) = Len(TheElement(r, "Wx").time)
          /\ \A i \in 1..Len(TheElement(r, name).time) :
                TheElement(r, name).time[i].parameter # <<>>

C2_N(r) == Len(TheElement(r, "Wx").time)

\* r was answered with exactly N records, in slot order, each built from
\* slot i of the five elements and the first element's times
C2_Records(r, N) ==
    /\ AnsweredOnce(r)
    /\ IsSuccess(Answer(r))
    /\ LET f == Answer(r).body.data.forecasts
       IN  /\ Len(f) = N
           /\ \A i \in 1..N :
                 /\ f[i].startTime = Elements(r)[1].time[i].startTime
                 /\ f[i].endTime = Elements(r)[1].time[i].endTime
                 /\ f[i].weather = Value(r, "Wx", i)
                 /\ f[i].rain = Value(r, "PoP", i) \o <<"%">>
                 /\ f[i].minTemp = Value(r, "MinT", i) \o <<"°", "C">>
                 /\ f[i].maxTemp = Value(r, "MaxT", i) \o <<"°", "C">>
                 /\ f[i].comfort = Value(r, "CI", i)
                 /\ f[i].windSpeed = <<>>

\* C2 as claimed: whenever the recognized elements of the block each carry
\* N slots, normalization returns exactly N records in slot order with the
\* stated fields, whatever other element kinds the block holds.
C2_Original ==
    \A r \in Reqs :
        (Finished(r) /\ C2_RecognizedAligned(r)) => C2_Records(r, C2_N(r))

\* C2 as amended: whenever every element of the block, recognized or not,
\* carries N slots, normalization returns exactly N records in slot order:
\* record i has the first element's slot-i times, weather = Wx[i],
\* rain = PoP[i] + "%", minTemp = MinT[i] + "°C", maxTemp = MaxT[i] + "°C",
\* comfort = CI[i] and windSpeed = "".
C2_AlignedBlockNormalized ==
    \A r \in Reqs :
        ( /\ Finished(r)
          /\ C2_RecognizedAligned(r)
          /\ \A k \in 1..Len(Elements(r)) :
                Len(Elements(r)[k].time) = C2_N(r) )
        => C2_Records(r, C2_N(r))

\* two slots, an unmapped element first and one last
C2_Witness ==
    /\ Finished(1) /\ C2_RecognizedAligned(1)
    /\ Len(Elements(1)) = 7
    /\ \A k \in 1..7 : Len(Elements(1)[k].time) = 2
    /\ AnsweredOnce(1) /\ IsSuccess(Answer(1))
    /\ Len(Answer(1).body.data.forecasts) = 2

---------------------------------------------------------------------------
(* C3 *)

\* the body has a message to pass on (a non-empty one)
C3_HasMessage(body) ==
    /\ body.type = "object"
    /\ "message" \in DOMAIN body.fields
    /\ body.fields.message # <<>>

\* C3: with the key set, a non-2xx reply with status s and body b is answered
\* with status s and the upstream-error body whose message is b.message (the
\* default message when b has none) and whose details are b.
C3_UpstreamErrorPassedThrough ==
    \A r \in Reqs :
        (Finished(r) /\ GotNon2xx(r)) =>
            sent[r] = << Response(reply[r].status,
                [error |-> "CwaApiError",
                 message |-> IF C3_HasMessage(reply[r].data)
                             THEN reply[r].data.fields.message
                             ELSE DefaultMessage,
                 details |-> reply[r].data]) >>

---------------------------------------------------------------------------
(* C4 *)

\* C4: a 2xx reply with a well-formed envelope that holds no block of the
\* requested city makes the client fail with the no-data error, and the route
\* answers 500 with the generic server-error body: no success, no forecasts.
C4_MissingLocalityIs500 ==
    \A r \in Reqs :
        (Finished(r) /\ GotEnvelope(r) /\ ~GotBlock(r)) =>
            /\ Normalize(City(r), reply[r].data) = Thrown(NoDataError(City(r)))
            /\ GenericError(r)

\* the reply holds another city's block only
C4_Witness ==
    /\ Finished(1) /\ GotEnvelope(1) /\ ~GotBlock(1)
    /\ Len(Records(1).location) = 1
    /\ AnsweredOnce(1) /\ Answer(1).status = 500

---------------------------------------------------------------------------
(* C5 *)

\* some element of r's block has fewer slots than the first one, or the
\* block has no elements
C5_Ragged(r) ==
    /\ GotBlock(r)
    /\ \/ Len(Elements(r)) = 0
       \/ \E k \in 1..Len(Elements(r)) :
             Len(Elements(r)[k].time) < Len(Elements(r)[1].time)

\* every record has the field of every recognized element of the block
C5_Filled(r, f) ==
    \A i \in 1..Len(f) :
        /\ Named(r, "Wx") # {} => f[i].weather # <<>>
        /\ Named(r, "PoP") # {} => f[i].rain # <<>>
        /\ Named(r, "MinT") # {} => f[i].minTemp # <<>>
        /\ Named(r, "MaxT") # {} => f[i].maxTemp # <<>>
        /\ Named(r, "CI") # {} => f[i].comfort # <<>>

\* C5: every response is either a success whose forecasts hold one filled
\* record per slot of the first element, or an error without forecast data;
\* a block with an element shorter than the first one, or with no elements,
\* ends in an error response.
C5_NoPartialResults ==
    \A r \in Reqs :
        /\ \A n \in 1..Len(sent[r]) :
              \/ /\ IsSuccess(sent[r][n])
                 /\ GotBlock(r)
                 /\ Len(Elements(r)) > 0
                 /\ Len(sent[r][n].body.data.forecasts)
                       = Len(Elements(r)[1].time)
                 /\ C5_Filled(r, sent[r][n].body.data.forecasts)
              \/ /\ "error" \in DOMAIN sent[r][n].body
                 /\ sent[r][n].status >= 400
                 /\ {"success", "data", "forecasts"}
                       \cap DOMAIN sent[r][n].body = {}
        /\ (Finished(r) /\ C5_Ragged(r)) => GenericError(r)

\* the third of five elements is one slot short
C5_Witness ==
    /\ Finished(1) /\ GotBlock(1)
    /\ Len(Elements(1)) = 5
    /\ Len(Elements(1)[1].time) = 2
    /\ Len(Elements(1)[3].time) = 1
    /\ AnsweredOnce(1) /\ ~IsSuccess(Answer(1))

---------------------------------------------------------------------------
(* C6 *)

\* C6 as claimed: in every record of every success response rain ends with
\* "%" and minTemp and maxTemp end with "°C", also when the block lacks the
\* PoP, MinT or MaxT element.
C6_Original ==
    \A r \in Reqs : \A n \in 1..Len(sent[r]) :
        IsSuccess(sent[r][n]) =>
            \A i \in 1..Len(sent[r][n].body.data.forecasts) :
                LET f == sent[r][n].body.data.forecasts[i]
                IN  /\ EndsWith(f.rain, <<"%">>)
                    /\ EndsWith(f.minTemp, <<"°", "C">>)
                    /\ EndsWith(f.maxTemp, <<"°", "C">>)

\* C6 as amended: in every record of every success response, rain ends with
\* "%" when the block has a PoP element and is the empty string when it has
\* none; likewise minTemp with MinT and maxTemp with MaxT, and "°C".
C6_SuffixOrEmpty ==
    \A r \in Reqs : \A n \in 1..Len(sent[r]) :
        IsSuccess(sent[r][n]) =>
            \A i \in 1..Len(sent[r][n].body.data.forecasts) :
                LET f == sent[r][n].body.data.forecasts[i]
                IN  /\ IF Named(r, "PoP") # {}
                       THEN EndsWith(f.rain, <<"%">>) /\ Len(f.rain) > 1
                       ELSE f.rain = <<>>
                    /\ IF Named(r, "MinT") # {}
                       THEN EndsWith(f.minTemp, <<"°", "C">>) /\ Len(f.minTemp) > 2
                       ELSE f.minTemp = <<>>
                    /\ IF Named(r, "MaxT") # {}
                       THEN EndsWith(f.maxTemp, <<"°", "C">>) /\ Len(f.maxTemp) > 2
                       ELSE f.maxTemp = <<>>

\* a success with records, from a block with PoP and MaxT but no MinT
C6_Witness ==
    /\ AnsweredOnce(1) /\ IsSuccess(Answer(1))
    /\ Len(Answer(1).body.data.forecasts) = 2
    /\ Named(1, "PoP") # {} /\ Named(1, "MaxT") # {} /\ Named(1, "MinT") = {}
    /\ EndsWith(Answer(1).body.data.forecasts[2].rain, <<"%">>)
    /\ Answer(1).body.data.forecasts[2].minTemp = <<>>

---------------------------------------------------------------------------
(* C7 *)

\* C7: with the key set, each handled request issues exactly one outbound
\* call whatever the call's outcome, and no request ever issues a second.
C7_OneCallNoRetry ==
    \A r \in Reqs :
        /\ calls[r] <= 1
        /\ (Asked(r) /\ ~KeyUnset) => calls[r] = 1
        /\ ~Asked(r) => calls[r] = 0

\* the call failed without a response, and the request was answered
C7_Witness ==
    /\ Finished(1) /\ GotNothing(1)
    /\ AnsweredOnce(1)
    /\ calls[1] = 1

---------------------------------------------------------------------------
(* C8 *)

\* C8: every request whose upstream call has returned or failed gets exactly
\* one HTTP response: no request is answered twice, and none is left
\* unanswered once its handler has ended.
C8_AnsweredExactlyOnce ==
    \A r \in Reqs :
        /\ Len(sent[r]) <= 1
        /\ Finished(r) => AnsweredOnce(r)

---------------------------------------------------------------------------
(* C9 *)

\* what r was answered comes from r's own route and r's own upstream reply
C9_OwnOutcome(r) ==
    LET a == Answer(r)
    IN  \/ /\ IsSuccess(a)
           /\ GotBlock(r)
           /\ a.body.data.city = City(r)
           /\ a.body.data.datasetDescription = <<Records(r).datasetDescription>>
           /\ a.body.data.dataUpdateTime = <<Records(r).issueTime>>
           /\ Len(a.body.data.forecasts) = Len(Elements(r)[1].time)
           /\ \A i \in 1..Len(a.body.data.forecasts) :
                 /\ a.body.data.forecasts[i].startTime
                       = Elements(r)[1].time[i].startTime
                 /\ a.body.data.forecasts[i].weather = Value(r, "Wx", i)
        \/ /\ IsError(a, "ServerConfigError")
           /\ KeyUnset
           /\ reply[r] = NoReply
        \/ /\ IsError(a, "CwaApiError")
           /\ GotNon2xx(r)
           /\ a.status = reply[r].status
           /\ a.body.details = reply[r].data
        \/ /\ IsError(a, "ServerError")
           /\ a.body.message = RetryLaterMessage(City(r))
           /\ GotNothing(r) \/ (Got2xx(r) /\ ~GotBlock(r))
        \/ /\ IsError(a, "ServerError")
           /\ a.body.message # RetryLaterMessage(City(r))
           /\ GotNon2xx(r)
           /\ reply[r].data = JNull

\* C9: under every interleaving of the in-flight requests, the response to a
\* request is determined by its route, the API key and the outcome of its
\* own upstream call: two requests with the same route and the same outcome
\* get the same response, and a response's city, forecasts or error is never
\* taken from another request's upstream reply.
C9_RequestsIndependent ==
    /\ \A r \in Reqs : sent[r] # <<>> => C9_OwnOutcome(r)
    /\ \A r, q \in Reqs :
          ( /\ sent[r] # <<>> /\ sent[q] # <<>>
            /\ path[r] = path[q] /\ reply[r] = reply[q] )
          => sent[r] = sent[q]

\* two requests for the same route: request 1 was answered with its own
\* forecasts while request 2, still awaiting, holds a different reply
C9_Witness ==
    /\ path[1] = path[2] /\ Asked(1)
    /\ pc[1] = "done" /\ AnsweredOnce(1) /\ IsSuccess(Answer(1))
    /\ pc[2] = "awaiting" /\ GotNon2xx(2)
    /\ sent[2] = <<>>

---------------------------------------------------------------------------
(* C10 *)

\* r's outbound call failed: no response, a non-2xx one, or a 2xx one whose
\* body is no envelope
C10_CallFailed(r) == GotNothing(r) \/ GotNon2xx(r) \/ (Got2xx(r) /\ ~GotEnvelope(r))

\* C10 as claimed: every failure of the outbound call (non-2xx, no response,
\* malformed body) is answered with the upstream-error body, with the
\* upstream status and body when there are any.
C10_Original ==
    \A r \in Reqs :
        (Finished(r) /\ C10_CallFailed(r)) =>
            /\ AnsweredOnce(r)
            /\ IsError(Answer(r), "CwaApiError")
            /\ GotHttp(r) => /\ Answer(r).status = reply[r].status
                             /\ Answer(r).body.details = reply[r].data

\* C10 as amended: of the failures of the outbound call only a non-2xx
\* response is ever answered with the upstream-error body, which then carries
\* the upstream status and body; a failure with no HTTP response, and a 2xx
\* response with a malformed body, are answered 500 with the generic
\* server-error body.
C10_OnlyNon2xxIsUpstreamError ==
    \A r \in Reqs :
        /\ \A n \in 1..Len(sent[r]) :
              IsError(sent[r][n], "CwaApiError") =>
                  /\ GotNon2xx(r)
                  /\ sent[r][n].status = reply[r].status
                  /\ sent[r][n].body.details = reply[r].data
        /\ ( /\ Finished(r)
             /\ GotNothing(r) \/ (Got2xx(r) /\ ~GotEnvelope(r)) )
           => GenericError(r)

\* both kinds of answer to a failed call are reached: here the generic one
C10_Witness ==
    /\ Finished(1) /\ GotNothing(1)
    /\ AnsweredOnce(1)
    /\ IsError(Answer(1), "ServerError")
    /\ Answer(1).status = 500

===========================================================================
